---- MODULE Spec2Model ----
(***************************************************************************)
(* State-machine model of the RAG service: the VectorStore wrapper over    *)
(* the persisted Chroma collection, the Retriever built on it, and the     *)
(* ingest / query request handlers that share them.                        *)
(*                                                                         *)
(* Two specifications are given.  Spec runs one caller at a time: direct   *)
(* calls of the VectorStore and Retriever methods on the two instances the *)
(* process owns.  SpecServer runs concurrent HTTP requests, step by step,  *)
(* under the scheduling of the asyncio event loop and its thread pool.     *)
(*                                                                         *)
(* Environment assumption: the embedding provider answers every call (its  *)
(* network failures are not modelled).                                     *)
(***************************************************************************)
EXTENDS Integers, Sequences, FiniteSets, TLC

VARIABLES
    dirExists,   \* settings.VECTORDB_DIR exists on disk
    coll,        \* the persisted collection "rag_collection": [exists, recs]
    vs,          \* per VectorStore instance: the value of self.vectorstore
    succeeded,   \* per instance: a create_from_documents / load_existing succeeded
    last,        \* the last completed method call: its inputs, pre-state, outcome
    req,         \* per HTTP request: its endpoint and its position
    loop,        \* the request whose handler holds the event loop (0: none)
    cached,      \* lru_cache of get_retriever: the singleton has been built
    inWriter,    \* the request inside a writer operation on the index (0: none)
    step         \* the last index step of the server

vars == <<dirExists, coll, vs, succeeded, last, req, loop, cached, inWriter, step>>

serverVars == <<req, loop, cached, inWriter, step>>

-----------------------------------------------------------------------------
(* Bounds *)

MaxRecs == 3      \* records the persisted collection may hold
MaxK == 3         \* largest k / top_k a caller passes
NReq == 2         \* concurrent HTTP requests
MaxText == 5      \* longest text handed to the splitter on its own
ChunkSize == 4    \* settings.CHUNK_SIZE, scaled down to the texts of the model
ChunkOverlap == 1 \* settings.CHUNK_OVERLAP, scaled down likewise
PreviewLen == 3   \* length of content_preview (150), scaled down likewise

\* QueryRequest: top_k <= 10
MaxTopK == 10

-----------------------------------------------------------------------------
(* Documents *)

\* dict.get(key, default) on a metadata mapping whose value is a string
Get(md, key, default) ==
    IF key \in DOMAIN md THEN md[key] ELSE default

IntToStr(n) ==
    IF n = 0 THEN "0" ELSE IF n = 1 THEN "1" ELSE IF n = 2 THEN "2"
    ELSE IF n = 3 THEN "3" ELSE "n"

\* f"{md.get(key, default)}" where the stored value is an int
GetFmt(md, key, default) ==
    IF key \in DOMAIN md THEN IntToStr(md[key]) ELSE default

\* langchain Document(page_content, metadata)
Document(text, md) == [page_content |-> text, metadata |-> md]

\* A text is a sequence of characters.  The texts of the model hold letters
\* and blanks and no newline, so of the separators ["\n\n", "\n", " ", ""]
\* the first two never match.
Separators == <<" ", "">>

RECURSIVE LStrip(_)
LStrip(text) ==
    IF text # <<>> /\ Head(text) = " " THEN LStrip(Tail(text)) ELSE text

RECURSIVE RStrip(_)
RStrip(text) ==
    IF text # <<>> /\ text[Len(text)] = " "
    THEN RStrip(SubSeq(text, 1, Len(text) - 1))
    ELSE text

\* str.strip()
Strip(text) == RStrip(LStrip(text))

RECURSIVE Concat(_)
Concat(parts) ==
    IF parts = <<>> THEN <<>> ELSE Head(parts) \o Concat(Tail(parts))

\* re.split on the separator, keep_separator = True: each separator opens the
\* piece that follows it; empty pieces are dropped.  On "" the pieces are the
\* characters.
RECURSIVE SplitOn(_, _, _)
SplitOn(text, sep, cur) ==
    IF text = <<>> THEN (IF cur = <<>> THEN <<>> ELSE <<cur>>)
    ELSE IF sep = ""
         THEN <<<<Head(text)>>>> \o SplitOn(Tail(text), sep, <<>>)
    ELSE IF Head(text) = sep
         THEN (IF cur = <<>> THEN <<>> ELSE <<cur>>)
              \o SplitOn(Tail(text), sep, <<Head(text)>>)
    ELSE SplitOn(Tail(text), sep, Append(cur, Head(text)))

\* TextSplitter._join_docs: the pieces joined, stripped (strip_whitespace is
\* left at its default True); a chunk that strips to "" is dropped.
JoinDocs(current) ==
    LET text == Strip(Concat(current))
    IN  IF text = <<>> THEN <<>> ELSE <<text>>

\* TextSplitter._merge_splits, the while loop: pieces leave the front of the
\* running chunk until what is left is within the overlap and has room for d.
RECURSIVE Shrink(_, _)
Shrink(current, d) ==
    LET total == Len(Concat(current))
    IN  IF total > ChunkOverlap \/ (total + Len(d) > ChunkSize /\ total > 0)
        THEN Shrink(Tail(current), d)
        ELSE current

\* TextSplitter._merge_splits (the separator kept in the pieces, so joined on "")
RECURSIVE MergeSplits(_, _)
MergeSplits(splits, current) ==
    IF splits = <<>> THEN JoinDocs(current)
    ELSE LET d     == Head(splits)
             total == Len(Concat(current))
         IN  IF total + Len(d) > ChunkSize /\ current # <<>>
             THEN JoinDocs(current)
                  \o MergeSplits(Tail(splits), Append(Shrink(current, d), d))
             ELSE MergeSplits(Tail(splits), Append(current, d))

\* The first separator that occurs in the text ("" always does)
RECURSIVE SeparatorAt(_, _, _)
SeparatorAt(text, separators, i) ==
    IF i >= Len(separators) \/ separators[i] = ""
            \/ \E j \in 1..Len(text) : text[j] = separators[i]
    THEN i
    ELSE SeparatorAt(text, separators, i + 1)

\* RecursiveCharacterTextSplitter._split_text: split on the first separator
\* present; pieces shorter than chunk_size are merged into chunks, a longer
\* piece is split again on the separators that remain.
RECURSIVE SplitText(_, _)
RECURSIVE SplitPieces(_, _, _, _)
SplitPieces(splits, good, final, new_separators) ==
    LET merged == IF good = <<>> THEN <<>> ELSE MergeSplits(good, <<>>)
    IN  IF splits = <<>> THEN final \o merged
        ELSE LET piece == Head(splits)
             IN  IF Len(piece) < ChunkSize
                 THEN SplitPieces(Tail(splits), Append(good, piece), final,
                                  new_separators)
                 ELSE SplitPieces(Tail(splits), <<>>,
                                  final \o merged
                                    \o (IF new_separators = <<>> THEN <<piece>>
                                        ELSE SplitText(piece, new_separators)),
                                  new_separators)

SplitText(text, separators) ==
    LET i == SeparatorAt(text, separators, 1)
    IN  SplitPieces(SplitOn(text, separators[i], <<>>), <<>>, <<>>,
                    SubSeq(separators, i + 1, Len(separators)))

\* TextSplitter.split_text
split_text(text) == SplitText(text, Separators)

\* The chunk Documents, numbered as enumerate(text_chunks, 1) would
ChunkDocs_from_one(doc) ==
    LET text_chunks == split_text(doc.page_content)
    IN  [index \in 1..Len(text_chunks) |->
            Document(text_chunks[index],
                     [source       |-> doc.metadata.source,
                      file_type    |-> doc.metadata.file_type,
                      page         |-> doc.metadata.page,
                      chuink_id    |-> index,
                      total_chunks |-> Len(text_chunks)])]

\* The chunk Documents the upload handler builds from one loaded document.
ChunkDocs(doc) ==
    LET text_chunks == split_text(doc.page_content)
    IN  [index \in 1..Len(text_chunks) |->
            Document(text_chunks[index],
                     [source       |-> doc.metadata.source,
                      file_type    |-> doc.metadata.file_type,
                      page         |-> doc.metadata.page,
                      chuink_id    |-> index - 1,
                      total_chunks |-> Len(text_chunks)])]

\* DocumentLoader.load_file: one Document per page, tagged with its origin.
load_file(file) ==
    [p \in 1..Len(file.pages) |->
        Document(file.pages[p],
                 [source |-> file.name, file_type |-> file.ext, page |-> p - 1])]

\* The texts of the uploaded files: longer than a chunk, shorter, and blank.
TextA == <<"a", "b", "c", "d", "a", "b">>
TextB == <<"b", "c">>
TextBlank == <<" ", " ">>

\* Uploaded files.  name: file.filename; saveOk: the file could be written to
\* data/; loadOk: the loader reads it back; pages: the text of each page.
FileA == [name |-> "a.txt", ext |-> ".txt", saveOk |-> TRUE, loadOk |-> TRUE,
          pages |-> <<TextA>>]
FileB == [name |-> "b.pdf", ext |-> ".pdf", saveOk |-> TRUE, loadOk |-> TRUE,
          pages |-> <<TextB>>]
FileX == [name |-> "x.exe", ext |-> ".exe", saveOk |-> TRUE, loadOk |-> TRUE,
          pages |-> <<TextB>>]
FileBad == [name |-> "bad.pdf", ext |-> ".pdf", saveOk |-> TRUE, loadOk |-> FALSE,
            pages |-> <<TextB>>]
FileEmpty == [name |-> "e.txt", ext |-> ".txt", saveOk |-> TRUE, loadOk |-> TRUE,
              pages |-> <<TextBlank>>]
FileLocked == [name |-> "l.txt", ext |-> ".txt", saveOk |-> FALSE, loadOk |-> TRUE,
               pages |-> <<TextB>>]
\* A second upload under the name of FileA
FileA2 == [name |-> "a.txt", ext |-> ".txt", saveOk |-> TRUE, loadOk |-> TRUE,
           pages |-> <<TextB>>]

DocsA == ChunkDocs(load_file(FileA)[1])
DocsB == ChunkDocs(load_file(FileB)[1])

\* The document lists direct callers hand to create_from_documents / add_documents.
DocInputs == {DocsA, DocsB, DocsB \o DocsA, <<>>}

Queries == {"qa", "qb"}

\* The k / top_k passed: -1 and 0 (invalid), the small ones, and the largest
\* the API admits.
KInputs == (-1..MaxK) \cup {MaxTopK}

-----------------------------------------------------------------------------
(* The Chroma library, as the wrapper uses it *)

NoColl == [exists |-> FALSE, recs |-> <<>>]

\* Chroma(persist_directory, collection_name): get_or_create_collection
ChromaOpen(c) ==
    IF c.exists THEN c ELSE [exists |-> TRUE, recs |-> <<>>]

\* embed_query: the embedding of a query, one coordinate.
Embed(text) ==
    IF text = "qa" THEN 1 ELSE 8

CharCode(ch) ==
    IF ch = "a" THEN 1 ELSE IF ch = "b" THEN 2 ELSE IF ch = "c" THEN 3
    ELSE IF ch = "d" THEN 4 ELSE 0

\* embed_documents: the embedding of a chunk's text, on the same coordinate.
RECURSIVE EmbedDocument(_)
EmbedDocument(text) ==
    IF text = <<>> THEN 0 ELSE CharCode(Head(text)) + EmbedDocument(Tail(text))

\* The distance Chroma scores a stored record with (lower = more similar).
Distance(query, doc) ==
    LET d == Embed(query) - EmbedDocument(doc.page_content)
    IN  IF d < 0 THEN -d ELSE d

\* Position of the record nearest to the query among the positions in idx
\* (the earliest inserted one on a tie).
Nearest(recs, query, idx) ==
    CHOOSE i \in idx :
        \A j \in idx :
            \/ Distance(query, recs[i]) < Distance(query, recs[j])
            \/ Distance(query, recs[i]) = Distance(query, recs[j]) /\ i <= j

RECURSIVE RankFrom(_, _, _, _)
RankFrom(recs, query, idx, k) ==
    IF k = 0 \/ idx = {} THEN <<>>
    ELSE LET i == Nearest(recs, query, idx)
         IN  <<i>> \o RankFrom(recs, query, idx \ {i}, k - 1)

\* collection.query(n_results = k): the positions of the k nearest records,
\* nearest first; all of them when the collection holds fewer than k.
ChromaQuery(recs, query, k) ==
    RankFrom(recs, query, 1..Len(recs), k)

-----------------------------------------------------------------------------
(* Outcomes of a method call *)

NoHttp == [code |-> 0, files_proccessed |-> 0, chunks_created |-> 0]

\* status/err: returned or raised; ret, docs, scores, context, sources: what
\* was returned; http: the response of a handler; infos: its SourceInfo
\* list; llm: how many times the handler invoked the language model;
\* builds: how many times it invoked create_from_documents.
NoOut ==
    [status |-> "ok", err |-> "", ret |-> FALSE, docs |-> <<>>, scores |-> <<>>,
     context |-> <<>>, sources |-> <<>>, http |-> NoHttp, infos |-> <<>>,
     llm |-> 0, builds |-> 0]

Raise(kind) == [NoOut EXCEPT !.status = "error", !.err = kind]

\* self.vectorstore: None, or a Chroma object.  A Chroma object is Open while
\* its collection lives, Deleted once delete_collection removed the collection,
\* Orphan once the directory was removed under it (snap: what it held then).
Handle(st, snap) == [st |-> st, snap |-> snap]

None == Handle("None", <<>>)

Open == Handle("Open", <<>>)

\* `self.vectorstore is None`, and the falsity of `if self.vectorstore:`
IsNone(h) == h.st = "None"

\* Whether the Chroma object answers a call: its collection lives, or the
\* directory was removed under it and the process still serves what it had
\* open (serves: which of the two the build and the platform give).
Answers(h, serves) ==
    \/ h.st = "Open"
    \/ h.st = "Orphan" /\ serves

\* The records the Chroma object reads.
Held(h, c) == IF h.st = "Open" THEN c.recs ELSE h.snap

-----------------------------------------------------------------------------
(* VectorStore: each method maps (self.vectorstore, collection, directory)  *)
(* to their new values and the call's outcome.                              *)

Result(h, c, d, out) == [h |-> h, c |-> c, d |-> d, out |-> out]

\* Chroma.from_documents: open or create the collection of that name in the
\* directory, then insert the documents under fresh ids.  rejectsEmpty: the
\* library refuses an empty insert (it does, or not, by version); the
\* exception leaves self.vectorstore unassigned.
create_from_documents(h, c, d, documents, rejectsEmpty) ==
    LET opened == ChromaOpen(c)
    IN  IF documents = <<>> /\ rejectsEmpty
        THEN Result(h, opened, TRUE, Raise("LibraryError"))
        ELSE Result(Open, [opened EXCEPT !.recs = @ \o documents], TRUE, NoOut)

\* load_existing without its count check: True as soon as the collection opens
load_existing_unchecked(h, c, d, fail) ==
    IF ~d THEN Result(h, c, d, NoOut)
    ELSE IF fail = "open" THEN Result(h, c, d, NoOut)
    ELSE Result(Open, ChromaOpen(c), d, [NoOut EXCEPT !.ret = TRUE])

\* fail: "open" when the Chroma constructor raises (the except clause turns
\* that into False, self.vectorstore not assigned), "none" when it does not.
load_existing(h, c, d, fail) ==
    IF ~d THEN Result(h, c, d, NoOut)
    ELSE IF fail = "open" THEN Result(h, c, d, NoOut)
    ELSE LET opened == ChromaOpen(c)
             count  == Len(opened.recs)
         IN  IF count = 0 THEN Result(Open, opened, d, NoOut)
             ELSE Result(Open, opened, d, [NoOut EXCEPT !.ret = TRUE])

add_documents(h, c, d, documents, serves) ==
    IF IsNone(h) THEN Result(h, c, d, Raise("NotInitialized"))
    ELSE IF ~Answers(h, serves) THEN Result(h, c, d, Raise("LibraryError"))
    ELSE IF h.st = "Open"
         THEN Result(h, [c EXCEPT !.recs = @ \o documents], d, NoOut)
         ELSE Result([h EXCEPT !.snap = @ \o documents], c, d, NoOut)

\* similarity_search without its `is None` guard: the attribute lookup on
\* None is what raises.
similarity_search_unguarded(h, c, d, query, k, serves) ==
    IF IsNone(h) THEN Result(h, c, d, Raise("AttributeError"))
    ELSE IF k < 1 THEN Result(h, c, d, Raise("InvalidArgument"))
    ELSE IF ~Answers(h, serves) THEN Result(h, c, d, Raise("LibraryError"))
    ELSE LET recs == Held(h, c)
             rank == ChromaQuery(recs, query, k)
         IN  Result(h, c, d,
                    [NoOut EXCEPT !.docs = [i \in 1..Len(rank) |-> recs[rank[i]]]])

\* similarity_search that drops its argument k and asks for the default 3
similarity_search_default_k(h, c, d, query, k, serves) ==
    IF IsNone(h) THEN Result(h, c, d, Raise("NotInitialized"))
    ELSE IF k < 1 THEN Result(h, c, d, Raise("InvalidArgument"))
    ELSE IF ~Answers(h, serves) THEN Result(h, c, d, Raise("LibraryError"))
    ELSE LET recs == Held(h, c)
             rank == ChromaQuery(recs, query, 3)
         IN  Result(h, c, d,
                    [NoOut EXCEPT !.docs = [i \in 1..Len(rank) |-> recs[rank[i]]]])

\* similarity_search over an index that answers k < 1 with no record
similarity_search_lenient_k(h, c, d, query, k, serves) ==
    IF IsNone(h) THEN Result(h, c, d, Raise("NotInitialized"))
    ELSE IF k < 1 THEN Result(h, c, d, NoOut)
    ELSE IF ~Answers(h, serves) THEN Result(h, c, d, Raise("LibraryError"))
    ELSE LET recs == Held(h, c)
             rank == ChromaQuery(recs, query, k)
         IN  Result(h, c, d,
                    [NoOut EXCEPT !.docs = [i \in 1..Len(rank) |-> recs[rank[i]]]])

\* The guard of the wrapper comes first; then the Chroma collection checks
\* n_results (k < 1 is refused before anything is looked up); then it queries.
similarity_search(h, c, d, query, k, serves) ==
    IF IsNone(h) THEN Result(h, c, d, Raise("NotInitialized"))
    ELSE IF k < 1 THEN Result(h, c, d, Raise("InvalidArgument"))
    ELSE IF ~Answers(h, serves) THEN Result(h, c, d, Raise("LibraryError"))
    ELSE LET recs == Held(h, c)
             rank == ChromaQuery(recs, query, k)
         IN  Result(h, c, d,
                    [NoOut EXCEPT !.docs = [i \in 1..Len(rank) |-> recs[rank[i]]]])

similarity_search_with_score(h, c, d, query, k, serves) ==
    IF IsNone(h) THEN Result(h, c, d, Raise("NotInitialized"))
    ELSE IF k < 1 THEN Result(h, c, d, Raise("InvalidArgument"))
    ELSE IF ~Answers(h, serves) THEN Result(h, c, d, Raise("LibraryError"))
    ELSE LET recs == Held(h, c)
             rank == ChromaQuery(recs, query, k)
         IN  Result(h, c, d,
                    [NoOut EXCEPT
                        !.docs = [i \in 1..Len(rank) |-> recs[rank[i]]],
                        !.scores = [i \in 1..Len(rank) |->
                                        Distance(query, recs[rank[i]])]])

\* self.vectorstore is never reset: after the delete it still is the Chroma
\* object, now without a collection.
delete_collection(h, c, d, serves) ==
    IF IsNone(h) THEN Result(h, c, d, NoOut)
    ELSE IF ~Answers(h, serves) THEN Result(h, c, d, Raise("LibraryError"))
    ELSE IF h.st = "Open"
         THEN Result(Handle("Deleted", <<>>), NoColl, d, NoOut)
         ELSE Result(Handle("Deleted", <<>>), c, d, NoOut)

-----------------------------------------------------------------------------
(* Retriever *)

\* Python values of the local `source` of Retriever.retrieve: a set or a str.
PySet(elems) == [type |-> "set", val |-> "", elems |-> elems]

PyStr(val) == [type |-> "str", val |-> val, elems |-> {}]

\* Only a set has the method .add
HasAdd(obj) == obj.type = "set"

\* One labelled block of the context, f"[{source} - Pag.{page} - Chunk {chunk_id}]\n{content}\n"
Block(source, page, chunk_id, content) ==
    [kind |-> "block", source |-> source, page |-> page, chunk_id |-> chunk_id,
     content |-> content]

\* The separator "\n---\n"
Sep == [kind |-> "sep", source |-> "", page |-> "", chunk_id |-> "", content |-> ""]

\* "\n---\n".join(context_parts)
RECURSIVE Join(_)
Join(parts) ==
    IF Len(parts) <= 1 THEN parts
    ELSE <<Head(parts), Sep>> \o Join(Tail(parts))

\* list(a set): its elements, each once, in some order
RECURSIVE ListOf(_)
ListOf(elems) ==
    IF elems = {} THEN <<>>
    ELSE LET x == CHOOSE x \in elems : TRUE
         IN  <<x>> \o ListOf(elems \ {x})

\* The for loop of Retriever.retrieve from its i-th result on.  `source` is the
\* one local the loop both rebinds to the chunk's source string and calls
\* .add on; parts is context_parts.
RECURSIVE RetrieveLoop(_, _, _, _)
RetrieveLoop(results, i, source, parts) ==
    IF i > Len(results)
    THEN [NoOut EXCEPT !.docs = results, !.context = Join(parts),
                       !.sources = ListOf(source.elems)]
    ELSE LET doc      == results[i]
             rebound  == PyStr(Get(doc.metadata, "source", "unknown source"))
             page     == GetFmt(doc.metadata, "page", "unknown page")
             chunk_id == GetFmt(doc.metadata, "chunk_id", "unknown id")
         IN  IF ~HasAdd(rebound) THEN Raise("AttributeError")
             ELSE RetrieveLoop(results, i + 1, rebound,
                               Append(parts, Block(rebound.val, page, chunk_id,
                                                   doc.page_content)))

retrieve(h, c, d, query, top_k, serves) ==
    LET found   == similarity_search(h, c, d, query, top_k, serves)
        results == found.out.docs
    IN  IF found.out.status = "error" THEN found
        ELSE IF results = <<>> THEN Result(h, c, d, NoOut)
        ELSE Result(h, c, d, RetrieveLoop(results, 1, PySet({}), <<>>))

retrieve_with_scores(h, c, d, query, top_k, serves) ==
    similarity_search_with_score(h, c, d, query, top_k, serves)

-----------------------------------------------------------------------------
(* The upload and clear handlers, as functions of their input *)

Supported(file) == file.ext \in {".pdf", ".txt", ".docx"}

\* step 1: the files of a supported format that could be written to data/
SavedFiles(files) == SelectSeq(files, LAMBDA f : Supported(f) /\ f.saveOk)

\* data/<name> after step 1: what the last saved upload of that name wrote
OnDisk(saved, name) ==
    LET last_write == CHOOSE i \in 1..Len(saved) :
                        /\ saved[i].name = name
                        /\ \A j \in 1..Len(saved) : saved[j].name = name => j <= i
    IN  saved[last_write]

RECURSIVE LoadFrom(_, _)
LoadFrom(saved, i) ==
    IF i > Len(saved) THEN <<>>
    ELSE LET file == OnDisk(saved, saved[i].name)
         IN  (IF file.loadOk THEN load_file(file) ELSE <<>>)
             \o LoadFrom(saved, i + 1)

\* step 2: for every saved path, the documents the loader reads from it; a
\* path that does not load is skipped
AllDocuments(saved) == LoadFrom(saved, 1)

\* step 3: the chunks of every document, in order
RECURSIVE AllChunks(_)
AllChunks(docs) ==
    IF docs = <<>> THEN <<>>
    ELSE ChunkDocs(Head(docs)) \o AllChunks(Tail(docs))

Http(code, nfiles, nchunks) ==
    [code |-> code, files_proccessed |-> nfiles, chunks_created |-> nchunks]

\* ingest_documents with the check of all_documents made after step 4
\* instead of before it
ingest_documents_build_first(h, c, d, files, rejectsEmpty) ==
    LET saved_files   == SavedFiles(files)
        all_documents == AllDocuments(saved_files)
        all_chunks    == AllChunks(all_documents)
        built         == create_from_documents(h, c, d, all_chunks, rejectsEmpty)
    IN  IF files = <<>> THEN Result(h, c, d, [NoOut EXCEPT !.http = Http(400, 0, 0)])
        ELSE IF saved_files = <<>>
             THEN Result(h, c, d, [NoOut EXCEPT !.http = Http(400, 0, 0)])
        ELSE IF built.out.status = "error" \/ all_documents = <<>>
             THEN [built EXCEPT !.out.http = Http(500, 0, 0), !.out.builds = 1]
        ELSE [built EXCEPT !.out.docs = all_chunks, !.out.builds = 1,
                           !.out.http = Http(200, Len(saved_files), Len(all_chunks))]

\* The handler raises its 400s and its first 500 before step 4; step 4 is
\* its one call of create_from_documents.
ingest_documents(h, c, d, files, rejectsEmpty) ==
    LET saved_files   == SavedFiles(files)
        all_documents == AllDocuments(saved_files)
        all_chunks    == AllChunks(all_documents)
        built         == create_from_documents(h, c, d, all_chunks, rejectsEmpty)
    IN  IF files = <<>> THEN Result(h, c, d, [NoOut EXCEPT !.http = Http(400, 0, 0)])
        ELSE IF saved_files = <<>>
             THEN Result(h, c, d, [NoOut EXCEPT !.http = Http(400, 0, 0)])
        ELSE IF all_documents = <<>>
             THEN Result(h, c, d, [NoOut EXCEPT !.http = Http(500, 0, 0)])
        ELSE IF built.out.status = "error"
             THEN [built EXCEPT !.out.http = Http(500, 0, 0), !.out.builds = 1]
        ELSE [built EXCEPT !.out.docs = all_chunks, !.out.builds = 1,
                           !.out.http = Http(200, Len(saved_files), Len(all_chunks))]

UploadInputs ==
    {<<>>, <<FileA>>, <<FileB>>, <<FileA, FileB>>, <<FileX>>, <<FileBad>>,
     <<FileBad, FileB>>, <<FileX, FileA>>, <<FileEmpty>>, <<FileEmpty, FileB>>,
     <<FileLocked, FileB>>, <<FileLocked>>, <<FileA, FileA2>>}

\* chunk.page_content[:150] + "..."
Preview(text) ==
    SubSeq(text, 1, IF Len(text) < PreviewLen THEN Len(text) ELSE PreviewLen)
        \o <<".", ".", ".">>

\* SourceInfo(filename, chunk_id, content_preview) of one retrieved chunk
SourceInfo(chunk) ==
    [filename        |-> Get(chunk.metadata, "source", "desconocido"),
     chunk_id        |-> Get(chunk.metadata, "chunk_id", 0),
     content_preview |-> Preview(chunk.page_content)]

\* query_rag that asks the language model before it looks at the context
query_rag_eager(h, c, d, question, top_k, serves, answered) ==
    LET got == retrieve(h, c, d, question, top_k, serves)
    IN  IF got.out.status = "error"
        THEN [got EXCEPT !.out.http = Http(500, 0, 0)]
        ELSE IF got.out.context = <<>>
        THEN [got EXCEPT !.out.http = Http(404, 0, 0), !.out.llm = 1]
        ELSE IF ~answered
        THEN [got EXCEPT !.out.http = Http(500, 0, 0), !.out.llm = 1]
        ELSE [got EXCEPT !.out.http = Http(200, 0, Len(got.out.docs)),
                         !.out.llm = 1,
                         !.out.infos = [i \in 1..Len(got.out.docs) |->
                                            SourceInfo(got.out.docs[i])]]

\* query_rag: an exception of retrieve is a 500, an empty context a 404;
\* otherwise the prompt is built and the model is asked, once (answered: it
\* answers; its failure is a 500 too), and the response lists one SourceInfo
\* per chunk with chunk_used = len(chunks).
query_rag(h, c, d, question, top_k, serves, answered) ==
    LET got == retrieve(h, c, d, question, top_k, serves)
    IN  IF got.out.status = "error"
        THEN [got EXCEPT !.out.http = Http(500, 0, 0)]
        ELSE IF got.out.context = <<>>
        THEN [got EXCEPT !.out.http = Http(404, 0, 0)]
        ELSE IF ~answered
        THEN [got EXCEPT !.out.http = Http(500, 0, 0), !.out.llm = 1]
        ELSE [got EXCEPT !.out.http = Http(200, 0, Len(got.out.docs)),
                         !.out.llm = 1,
                         !.out.infos = [i \in 1..Len(got.out.docs) |->
                                            SourceInfo(got.out.docs[i])]]

\* debug_retrieval: any exception is a 500
debug_retrieval(h, c, d, question, top_k, serves) ==
    LET got == retrieve_with_scores(h, c, d, question, top_k, serves)
    IN  IF got.out.status = "error"
        THEN [got EXCEPT !.out.http = Http(500, 0, 0)]
        ELSE [got EXCEPT !.out.http = Http(200, 0, Len(got.out.docs))]

\* shutil.rmtree(vector_db_dir) under a Chroma object that has it open
Orphaned(h, c) == IF h.st = "Open" THEN Handle("Orphan", c.recs) ELSE h

\* delete_collection through one Chroma object, seen from another one
Dropped(h) == IF h.st = "Open" THEN Handle("Deleted", <<>>) ELSE h

-----------------------------------------------------------------------------
(* State *)

\* get_vectorstore() serves the ingest endpoints; the Retriever of
\* get_retriever() owns a VectorStore of its own.
Inst == {"ingest", "retriever"}

\* The record of a completed call: what went in (docs: the documents, the
\* uploaded files, or the call's other input), what the caller could see
\* before it, what came out.
Call(op, inst, query, k, docs, r) ==
    [op |-> op, inst |-> inst, query |-> query, k |-> k, docs |-> docs,
     pre |-> [h |-> vs[inst], c |-> coll, d |-> dirExists,
              succeeded |-> succeeded[inst]],
     out |-> r.out]

\* No call has been made, or the caller has taken the last one's outcome.
Idle ==
    [op |-> "idle", inst |-> "ingest", query |-> "", k |-> 0, docs |-> <<>>,
     pre |-> [h |-> None, c |-> NoColl, d |-> TRUE, succeeded |-> FALSE],
     out |-> NoOut]

NoReq == [kind |-> "none", pc |-> "idle", files |-> <<>>, chunks |-> <<>>]

Reqs == 1..NReq

\* An index step of the server: the request that took it and what it was;
\* early: the Retriever singleton existed when the last build began; and for
\* a search, whether the persisted collection held records then and the error
\* the request ended with.
IndexStep(r, op, early, indexed, err) ==
    [req |-> r, op |-> op, early |-> early, indexed |-> indexed, err |-> err]

NoStep == IndexStep(0, "none", FALSE, FALSE, "")

\* After construction: config.py has created the directory, no collection is
\* persisted, both VectorStore instances hold self.vectorstore = None.
Init ==
    /\ dirExists = TRUE
    /\ coll = NoColl
    /\ vs = [i \in Inst |-> None]
    /\ succeeded = [i \in Inst |-> FALSE]
    /\ last = Idle
    /\ req = [r \in Reqs |-> NoReq]
    /\ loop = 0
    /\ cached = FALSE
    /\ inWriter = {}
    /\ step = NoStep

\* The model's bound on what is stored
Fits(r) == Len(r.c.recs) <= MaxRecs /\ Len(r.h.snap) <= MaxRecs

\* The state after instance i's method returned r: a collection that the call
\* removed is gone for the other instance's Chroma object too.
Commit(i, r) ==
    /\ last = Idle
    /\ Fits(r)
    /\ vs' = [j \in Inst |->
                IF j = i THEN r.h
                ELSE IF coll.exists /\ ~r.c.exists THEN Dropped(vs[j])
                ELSE vs[j]]
    /\ coll' = r.c
    /\ dirExists' = r.d

-----------------------------------------------------------------------------
(* Spec: one caller at a time.  A call is made on an instance, its outcome  *)
(* is recorded in `last`, the caller takes it (Resume) and goes on.         *)

\* What a Chroma object orphaned by rmtree does is not determined by the
\* code: both outcomes are drawn.  Any other object has one behaviour.
Serving(h) == IF h.st = "Orphan" THEN BOOLEAN ELSE {FALSE}

CreateFromDocuments(i) ==
    \E docs \in DocInputs, rejectsEmpty \in BOOLEAN :
        LET r == create_from_documents(vs[i], coll, dirExists, docs,
                                       rejectsEmpty)
        IN  /\ Commit(i, r)
            /\ succeeded' = [succeeded EXCEPT
                                ![i] = @ \/ r.out.status = "ok"]
            /\ last' = Call("create_from_documents", i, "", 0, docs, r)
            /\ UNCHANGED serverVars

\* VectorStore.load_existing, and Retriever.initialize which is that call
LoadExisting(i) ==
    \E fail \in {"none", "open"} :
        LET r == load_existing(vs[i], coll, dirExists, fail)
        IN  /\ Commit(i, r)
            /\ succeeded' = [succeeded EXCEPT ![i] = @ \/ r.out.ret]
            /\ last' = Call("load_existing", i, fail, 0, <<>>, r)
            /\ UNCHANGED serverVars

AddDocuments(i) ==
    \E docs \in DocInputs \ {<<>>}, serves \in Serving(vs[i]) :
        LET r == add_documents(vs[i], coll, dirExists, docs, serves)
        IN  /\ Commit(i, r)
            /\ last' = Call("add_documents", i, "", 0, docs, r)
            /\ UNCHANGED <<succeeded, serverVars>>

SimilaritySearch(i) ==
    \E query \in Queries, k \in KInputs, serves \in Serving(vs[i]) :
        LET r == similarity_search(vs[i], coll, dirExists, query, k, serves)
        IN  /\ Commit(i, r)
            /\ last' = Call("similarity_search", i, query, k, <<>>, r)
            /\ UNCHANGED <<succeeded, serverVars>>

SimilaritySearchWithScore(i) ==
    \E query \in Queries, k \in KInputs, serves \in Serving(vs[i]) :
        LET r == similarity_search_with_score(vs[i], coll, dirExists, query,
                                              k, serves)
        IN  /\ Commit(i, r)
            /\ last' = Call("similarity_search_with_score", i, query, k,
                            <<>>, r)
            /\ UNCHANGED <<succeeded, serverVars>>

DeleteCollection(i) ==
    \E serves \in Serving(vs[i]) :
        LET r == delete_collection(vs[i], coll, dirExists, serves)
        IN  /\ Commit(i, r)
            /\ last' = Call("delete_collection", i, "", 0, <<>>, r)
            /\ UNCHANGED <<succeeded, serverVars>>

Retrieve ==
    \E query \in Queries, top_k \in KInputs, serves \in Serving(vs["retriever"]) :
        LET r == retrieve(vs["retriever"], coll, dirExists, query, top_k, serves)
        IN  /\ Commit("retriever", r)
            /\ last' = Call("retrieve", "retriever", query, top_k, <<>>, r)
            /\ UNCHANGED <<succeeded, serverVars>>

RetrieveWithScores ==
    \E query \in Queries, top_k \in KInputs, serves \in Serving(vs["retriever"]) :
        LET r == retrieve_with_scores(vs["retriever"], coll, dirExists, query, top_k,
                                      serves)
        IN  /\ Commit("retriever", r)
            /\ last' = Call("retrieve_with_scores", "retriever", query, top_k, <<>>, r)
            /\ UNCHANGED <<succeeded, serverVars>>

\* POST /ingest/upload, run alone
IngestDocuments ==
    \E files \in UploadInputs, rejectsEmpty \in BOOLEAN :
        LET r == ingest_documents(vs["ingest"], coll, dirExists, files, rejectsEmpty)
        IN  /\ Commit("ingest", r)
            /\ succeeded' = [succeeded EXCEPT
                                !["ingest"] = @ \/ r.out.http.code = 200]
            /\ last' = Call("ingest_documents", "ingest", "", 0, files, r)
            /\ UNCHANGED serverVars

\* DELETE /ingest/clear, run alone: the directory is removed with all it
\* holds and made again, under whatever Chroma objects have it open.
ClearData ==
    /\ last = Idle
    /\ vs' = [i \in Inst |-> Orphaned(vs[i], coll)]
    /\ coll' = NoColl
    /\ dirExists' = TRUE
    /\ last' = Call("clear_data", "ingest", "", 0, <<>>,
                    Result(vs["ingest"], NoColl, TRUE,
                           [NoOut EXCEPT !.http = Http(200, 0, 0)]))
    /\ UNCHANGED <<succeeded, serverVars>>

\* POST /query/ask and POST /query/debug, run alone (QueryRequest: top_k >= 1)
QueryRag ==
    \E question \in Queries, top_k \in 1..MaxK, serves \in Serving(vs["retriever"]),
       answered \in BOOLEAN :
        LET r == query_rag(vs["retriever"], coll, dirExists, question, top_k, serves,
                           answered)
        IN  /\ Commit("retriever", r)
            /\ last' = Call("query_rag", "retriever", question, top_k,
                            <<answered>>, r)
            /\ UNCHANGED <<succeeded, serverVars>>

DebugRetrieval ==
    \E question \in Queries, top_k \in 1..MaxK, serves \in Serving(vs["retriever"]) :
        LET r == debug_retrieval(vs["retriever"], coll, dirExists, question, top_k,
                                 serves)
        IN  /\ Commit("retriever", r)
            /\ last' = Call("debug_retrieval", "retriever", question, top_k, <<>>, r)
            /\ UNCHANGED <<succeeded, serverVars>>

\* The caller takes the outcome of its call.
Resume ==
    /\ last # Idle
    /\ last' = Idle
    /\ UNCHANGED <<dirExists, coll, vs, succeeded, serverVars>>

Next ==
    \/ \E i \in Inst : CreateFromDocuments(i)
    \/ \E i \in Inst : LoadExisting(i)
    \/ \E i \in Inst : AddDocuments(i)
    \/ \E i \in Inst : SimilaritySearch(i)
    \/ \E i \in Inst : SimilaritySearchWithScore(i)
    \/ \E i \in Inst : DeleteCollection(i)
    \/ Retrieve
    \/ RetrieveWithScores
    \/ IngestDocuments
    \/ ClearData
    \/ QueryRag
    \/ DebugRetrieval
    \/ Resume

Spec == Init /\ [][Next]_vars

-----------------------------------------------------------------------------
(* SpecSplit: TextSplitter.split_text called on its own, on every text of   *)
(* letters and blanks up to MaxText characters.                             *)

Alphabet == {" ", "a", "b"}

Texts == UNION {[1..n -> Alphabet] : n \in 0..MaxText}

SplitTextCall ==
    \E text \in Texts :
        /\ last = Idle
        /\ last' = Call("split_text", "ingest", "", 0, <<text>>,
                        Result(vs["ingest"], coll, dirExists,
                               [NoOut EXCEPT !.docs = split_text(text)]))
        /\ UNCHANGED <<dirExists, coll, vs, succeeded, serverVars>>

NextSplit ==
    \/ SplitTextCall
    \/ Resume

SpecSplit == Init /\ [][NextSplit]_vars

-----------------------------------------------------------------------------
(* SpecServer: concurrent HTTP requests.  A request resolves its            *)
(* dependencies (sync callables: in the thread pool, beside whatever else   *)
(* runs), then its handler runs.  Every handler is a coroutine (async def)  *)
(* without an await in its body: once started on the event loop it runs to  *)
(* its response before the loop takes up another handler.                   *)

\* The query handlers declared with a plain def: they run in the thread pool.
OnEventLoopWritersOnly(kind) == kind \in {"upload", "clear"}

\* Whether the endpoint's handler is a coroutine run on the event loop (a
\* plain def would be handed to the thread pool).
OnEventLoop(kind) == TRUE

ServerUploads == {<<FileB>>, <<FileX>>}

\* The handler of r may start: a coroutine waits for the event loop.
MayStart(r) == req[r].pc = "ready" /\ (OnEventLoop(req[r].kind) => loop = 0)

\* The handler of r, started, may take its next step.
Running(r) == OnEventLoop(req[r].kind) => loop = r

Taken(r) == IF OnEventLoop(req[r].kind) THEN r ELSE loop

Released(r) == IF loop = r THEN 0 ELSE loop

\* A request arrives: POST /ingest/upload (its dependencies only construct
\* the singletons, the index is not touched), DELETE /ingest/clear (none),
\* POST /query/ask or POST /query/debug (get_retriever is to be resolved).
Arrive(r) ==
    /\ req[r].pc = "idle"
    /\ \/ \E files \in ServerUploads :
            req' = [req EXCEPT ![r] = [NoReq EXCEPT !.kind = "upload", !.pc = "ready",
                                                    !.files = files]]
       \/ req' = [req EXCEPT ![r] = [NoReq EXCEPT !.kind = "clear", !.pc = "ready"]]
       \/ \E kind \in {"ask", "debug"} :
            req' = [req EXCEPT ![r] = [NoReq EXCEPT !.kind = kind, !.pc = "deps"]]
    /\ UNCHANGED <<dirExists, coll, vs, succeeded, last, loop, cached, inWriter, step>>

\* Depends(get_retriever), in the thread pool: the first call builds the
\* Retriever and runs initialize(); lru_cache hands the same object to every
\* later call.
GetRetriever(r) ==
    /\ req[r].kind \in {"ask", "debug"} /\ req[r].pc = "deps"
    /\ req' = [req EXCEPT ![r].pc = "ready"]
    /\ IF cached
       THEN UNCHANGED <<dirExists, coll, vs, succeeded, cached>>
       ELSE \E fail \in {"none", "open"} :
                LET res == load_existing(vs["retriever"], coll, dirExists, fail)
                IN  /\ vs' = [vs EXCEPT !["retriever"] = res.h]
                    /\ coll' = res.c
                    /\ dirExists' = res.d
                    /\ succeeded' = [succeeded EXCEPT !["retriever"] = @ \/ res.out.ret]
                    /\ cached' = TRUE
    /\ UNCHANGED <<last, loop, inWriter, step>>

\* ingest_documents, steps 1 to 3: save, load, split; a 400 or a 500 when
\* nothing is left to index.  (An upload the model's bound has no room for is
\* not taken up.)
Prepare(r) ==
    /\ req[r].kind = "upload" /\ MayStart(r)
    /\ LET saved_files   == SavedFiles(req[r].files)
           all_documents == AllDocuments(saved_files)
           all_chunks    == AllChunks(all_documents)
       IN  /\ Len(coll.recs) + Len(all_chunks) <= MaxRecs
           /\ IF req[r].files = <<>> \/ saved_files = <<>> \/ all_documents = <<>>
              THEN req' = [req EXCEPT ![r] = NoReq] /\ UNCHANGED loop
              ELSE /\ req' = [req EXCEPT ![r].pc = "build_open",
                                         ![r].chunks = all_chunks]
                   /\ loop' = Taken(r)
    /\ UNCHANGED <<dirExists, coll, vs, succeeded, last, cached, inWriter, step>>

\* ingest_documents, step 4, first half: Chroma.from_documents opens or
\* creates the collection ...
BuildOpen(r) ==
    /\ req[r].pc = "build_open" /\ Running(r)
    /\ coll' = ChromaOpen(coll)
    /\ dirExists' = TRUE
    /\ inWriter' = inWriter \cup {r}
    /\ step' = IndexStep(r, "write", cached, FALSE, "")
    /\ req' = [req EXCEPT ![r].pc = "build_add"]
    /\ UNCHANGED <<vs, succeeded, last, loop, cached>>

\* ... second half: the chunks are embedded and inserted, the handle is
\* kept, the response is sent.
BuildAdd(r) ==
    /\ req[r].pc = "build_add" /\ Running(r)
    /\ \E rejectsEmpty \in BOOLEAN :
        LET res == create_from_documents(vs["ingest"], coll, dirExists,
                                         req[r].chunks, rejectsEmpty)
        IN  /\ Len(res.c.recs) <= MaxRecs
            /\ vs' = [vs EXCEPT !["ingest"] = res.h]
            /\ coll' = res.c
            /\ dirExists' = res.d
            /\ succeeded' = [succeeded EXCEPT
                                !["ingest"] = @ \/ res.out.status = "ok"]
    /\ req' = [req EXCEPT ![r] = NoReq]
    /\ inWriter' = inWriter \ {r}
    /\ step' = IndexStep(r, "write", step.early, FALSE, "")
    /\ loop' = Released(r)
    /\ UNCHANGED <<last, cached>>

\* clear_data: shutil.rmtree(vector_db_dir) ...
Rmtree(r) ==
    /\ req[r].kind = "clear" /\ MayStart(r)
    /\ vs' = [i \in Inst |-> Orphaned(vs[i], coll)]
    /\ coll' = NoColl
    /\ dirExists' = FALSE
    /\ inWriter' = inWriter \cup {r}
    /\ step' = IndexStep(r, "write", FALSE, FALSE, "")
    /\ req' = [req EXCEPT ![r].pc = "mkdir"]
    /\ loop' = Taken(r)
    /\ UNCHANGED <<succeeded, last, cached>>

\* ... vector_db_dir.mkdir(), and the response
Mkdir(r) ==
    /\ req[r].pc = "mkdir" /\ Running(r)
    /\ dirExists' = TRUE
    /\ inWriter' = inWriter \ {r}
    /\ step' = IndexStep(r, "write", FALSE, FALSE, "")
    /\ req' = [req EXCEPT ![r] = NoReq]
    /\ loop' = Released(r)
    /\ UNCHANGED <<coll, vs, succeeded, last, cached>>

\* query_rag / debug_retrieval on the cached Retriever: the search of its
\* index, and the response (of which the server's state keeps the error).
Search(r) ==
    /\ req[r].kind \in {"ask", "debug"} /\ MayStart(r)
    /\ \E res \in
            IF req[r].kind = "ask"
            THEN {query_rag(vs["retriever"], coll, dirExists, question, top_k,
                            serves, answered) :
                    question \in Queries, top_k \in {MaxK},
                    serves \in Serving(vs["retriever"]), answered \in BOOLEAN}
            ELSE {debug_retrieval(vs["retriever"], coll, dirExists, question,
                                  top_k, serves) :
                    question \in Queries, top_k \in {MaxK},
                    serves \in Serving(vs["retriever"])} :
            step' = IndexStep(r, "search", step.early, coll.recs # <<>>,
                              res.out.err)
    /\ req' = [req EXCEPT ![r] = NoReq]
    /\ UNCHANGED <<dirExists, coll, vs, succeeded, last, loop, cached, inWriter>>

NextServer ==
    \E r \in Reqs :
        \/ Arrive(r)
        \/ GetRetriever(r)
        \/ Prepare(r)
        \/ BuildOpen(r)
        \/ BuildAdd(r)
        \/ Rmtree(r)
        \/ Mkdir(r)
        \/ Search(r)

SpecServer == Init /\ [][NextServer]_vars

-----------------------------------------------------------------------------
(* Properties *)

Min(a, b) == IF a < b THEN a ELSE b

Range(seq) == {seq[i] : i \in 1..Len(seq)}

\* The last call was Retriever.retrieve with a valid top_k.
Retrieved == last.op = "retrieve" /\ last.k >= 1

\* The last call was retrieve on an open index that holds records: the
\* ranked list it got from the index.
RetrievedSome ==
    Retrieved /\ last.pre.h.st = "Open" /\ last.pre.c.recs # <<>>

Ranked ==
    LET recs == last.pre.c.recs
        rank == ChromaQuery(recs, last.query, last.k)
    IN  [i \in 1..Len(rank) |-> recs[rank[i]]]

\* C1 (as claimed): retrieve on a collection that is empty, missing or
\* freshly deleted returns normally, with chunks = [], sources = [] and
\* context = "", for every query and every top_k >= 1.
C1_RetrieveOnNothingIsEmpty ==
    (Retrieved /\ last.pre.c.recs = <<>>)
        => /\ last.out.status = "ok"
           /\ last.out.docs = <<>>
           /\ last.out.sources = <<>>
           /\ last.out.context = <<>>

\* C2 (as claimed): for a non-empty ranked result list, the sources retrieve
\* returns are exactly the distinct source values of the returned chunks,
\* each once.
C2_SourcesAreTheDistinctSources ==
    RetrievedSome
        => LET srcs == {Ranked[i].metadata.source : i \in 1..Len(Ranked)}
           IN  /\ last.out.status = "ok"
               /\ Range(last.out.sources) = srcs
               /\ Len(last.out.sources) = Cardinality(srcs)

\* C3 (as claimed): a retrieve that gets n >= 1 chunks returns a context of
\* n labelled blocks in ranked order, joined by the separator, block i
\* carrying source, page and chunk index of chunk i and then its content.
C3_ContextIsTheRankedBlocks ==
    RetrievedSome
        => /\ last.out.status = "ok"
           /\ last.out.docs = Ranked
           /\ last.out.context =
                Join([i \in 1..Len(Ranked) |->
                        Block(Ranked[i].metadata.source,
                              IntToStr(Ranked[i].metadata.page),
                              IntToStr(Ranked[i].metadata.chuink_id),
                              Ranked[i].page_content)])

\* C4 (as claimed): add_documents, when no create_from_documents and no
\* load_existing has succeeded (it is the first call, or load_existing has
\* returned False), fails with the not-initialized error and leaves the
\* collection unchanged.
C4_AddBeforeSuccessFails ==
    (last.op = "add_documents" /\ \A i \in Inst : ~succeeded[i])
        => /\ last.out.status = "error"
           /\ last.out.err = "NotInitialized"
           /\ coll = last.pre.c

Searched == last.op \in {"similarity_search", "similarity_search_with_score"}

\* C5 (as claimed): similarity_search and similarity_search_with_score fail
\* with the not-initialized error whenever no build and no load has
\* succeeded, for every query and k >= 1.
C5_SearchBeforeSuccessFails ==
    (Searched /\ last.k >= 1 /\ \A i \in Inst : ~succeeded[i])
        => last.out.status = "error" /\ last.out.err = "NotInitialized"

\* C5 (amended): similarity_search and similarity_search_with_score fail with
\* the not-initialized error, and return no result, whenever
\* self.vectorstore is None, for every query and k.
C5_SearchWithoutHandleFails ==
    (Searched /\ IsNone(last.pre.h))
        => /\ last.out.status = "error"
           /\ last.out.err = "NotInitialized"
           /\ last.out.docs = <<>>
           /\ last.out.scores = <<>>

\* C5 witness: a search with a valid k on an instance whose load_existing
\* found no directory or could not open it, or that was never opened.
C5_Witness ==
    /\ last.op = "similarity_search"
    /\ last.k = 2
    /\ IsNone(last.pre.h)
    /\ last.pre.c.recs # <<>>
    /\ last.out.err = "NotInitialized"

\* C6 (as claimed): after create_from_documents(R) succeeds, directly or
\* through an upload, the persisted collection holds exactly the records
\* of R, whatever it held before.
C6_BuildReplaces ==
    /\ (last.op = "create_from_documents" /\ last.out.status = "ok")
            => coll.recs = last.docs
    /\ (last.op = "ingest_documents" /\ last.out.http.code = 200)
            => coll.recs = last.out.docs

\* C7: writer operations on the index (the build of an upload, the removal
\* of a clear) exclude each other, and between the start and the end of one
\* no search step and no writer step of another request occurs.
C7_WritersAreExclusive ==
    /\ Cardinality(inWriter) <= 1
    /\ inWriter # {} => step.req \in inWriter

\* C7 witness: a writer operation is under way while a query and another
\* writer are ready to run.
C7_Witness ==
    \E r \in Reqs :
        /\ inWriter = {r}
        /\ req[r].pc \in {"build_add", "mkdir"}
        /\ \E q \in Reqs \ {r} :
                req[q].pc = "ready" /\ req[q].kind \in {"ask", "debug"}

\* C8: on an open collection of N records, a search with k >= 1 returns
\* exactly min(k, N) results and no error (with one score each, when scores
\* are asked for).
C8_SearchReturnsMinKN ==
    (Searched /\ last.k >= 1 /\ last.pre.h.st = "Open")
        => /\ last.out.status = "ok"
           /\ Len(last.out.docs) = Min(last.k, Len(last.pre.c.recs))
           /\ last.op = "similarity_search_with_score"
                => Len(last.out.scores) = Len(last.out.docs)

\* C8 witness: k = 10 against an open collection of fewer records returns
\* them all.
C8_Witness ==
    /\ last.op = "similarity_search"
    /\ last.k = 10
    /\ last.pre.h.st = "Open"
    /\ Len(last.pre.c.recs) = MaxRecs
    /\ Len(last.out.docs) = MaxRecs

\* C9: load_existing never raises; it returns False when the directory or
\* the collection does not exist, when the collection holds no record and
\* when opening fails; it returns True only when the collection was opened
\* and holds at least one record.
C9_LoadExistingNeverRaises ==
    last.op = "load_existing"
        => /\ last.out.status = "ok"
           /\ (~last.pre.d \/ ~last.pre.c.exists \/ last.pre.c.recs = <<>>
                    \/ last.query = "open") => ~last.out.ret
           /\ last.out.ret => vs[last.inst].st = "Open" /\ Len(coll.recs) >= 1

\* C9 witness: load_existing on a persisted collection without records
\* returned False.
C9_Witness ==
    /\ last.op = "load_existing"
    /\ last.query = "none"
    /\ last.pre.c.exists
    /\ last.pre.c.recs = <<>>
    /\ ~last.out.ret

\* C10 (as claimed): delete_collection when the collection is already absent
\* (never created, or deleted before) raises no error and leaves the store
\* as it was.
C10_DeleteIsIdempotent ==
    (last.op = "delete_collection" /\ ~last.pre.c.exists
        /\ last.pre.h.st \in {"None", "Deleted"})
        => /\ last.out.status = "ok"
           /\ coll = last.pre.c
           /\ vs[last.inst] = last.pre.h

\* C11 (as claimed): create_from_documents with an empty list fails and
\* leaves an existing collection unchanged, also when it is the upload
\* handler that hands over no chunk because every loaded document split into
\* none.
C11_EmptyBuildFails ==
    /\ (last.op = "create_from_documents" /\ last.docs = <<>>)
            => /\ last.out.status = "error"
               /\ last.pre.c.exists => coll = last.pre.c
    /\ (last.op = "ingest_documents"
            /\ AllDocuments(SavedFiles(last.docs)) # <<>>
            /\ AllChunks(AllDocuments(SavedFiles(last.docs))) = <<>>)
            => /\ last.out.http.code # 200
               /\ last.pre.c.exists => coll = last.pre.c

SearchOrRetrieve ==
    last.op \in {"similarity_search", "similarity_search_with_score",
                 "retrieve", "retrieve_with_scores"}

C13_ScoresAgreeWithRetrieve ==
    (last.op = "retrieve_with_scores" /\ last.pre.h.st # "Orphan")
        => LET plain == retrieve(last.pre.h, last.pre.c, last.pre.d,
                                 last.query, last.k, FALSE).out
           IN  /\ plain.status = last.out.status
               /\ plain.docs = last.out.docs
               /\ Len(last.out.scores) = Len(last.out.docs)

\* What the index returns for the question of the last /query/ask
AskRanked ==
    similarity_search(last.pre.h, last.pre.c, last.pre.d, last.query, last.k,
                      FALSE).out.docs

\* C14 (as claimed): the answer of /query/ask to a question that retrieves
\* chunks lists one SourceInfo per retrieved chunk, in ranked order, with
\* chunk_used = the number of chunks, filename = the chunk's source and
\* chunk_id = the chunk's 0-based position in its document, as assigned at
\* ingestion.
C14_SourceInfosFollowChunks ==
    (last.op = "query_rag" /\ last.docs = <<TRUE>>
        /\ last.pre.h.st = "Open" /\ AskRanked # <<>>)
        => /\ last.out.http.code = 200
           /\ last.out.http.chunks_created = Len(AskRanked)
           /\ Len(last.out.infos) = Len(AskRanked)
           /\ \A i \in 1..Len(AskRanked) :
                /\ last.out.infos[i].filename = AskRanked[i].metadata.source
                /\ last.out.infos[i].chunk_id = AskRanked[i].metadata.chuink_id

\* The documents the last upload loaded, and the chunks it handed to the index
Parents == AllDocuments(SavedFiles(last.docs))

Uploaded == last.op = "ingest_documents" /\ last.out.http.code = 200

\* Number of chunks of the parents before the p-th
RECURSIVE ChunksBefore(_, _)
ChunksBefore(parents, p) ==
    IF p <= 1 THEN 0
    ELSE ChunksBefore(parents, p - 1)
            + Len(split_text(parents[p - 1].page_content))

\* C15: every chunk an upload hands to the index carries a chunk index and
\* a total_chunks with 0 <= index < total_chunks, total_chunks the number of
\* chunks of its parent document, the indices of one parent being
\* 0..total_chunks-1 in order, and the parent's source, file_type and page.
C15_ChunkMetadataIsConsistent ==
    Uploaded
        => /\ Len(last.out.docs) = ChunksBefore(Parents, Len(Parents) + 1)
           /\ \A p \in 1..Len(Parents) :
                LET n == Len(split_text(Parents[p].page_content))
                IN  \A j \in 1..n :
                        LET md == last.out.docs[ChunksBefore(Parents, p) + j].metadata
                        IN  /\ md.chuink_id = j - 1
                            /\ md.total_chunks = n
                            /\ 0 <= md.chuink_id /\ md.chuink_id < md.total_chunks
                            /\ md.source = Parents[p].metadata.source
                            /\ md.file_type = Parents[p].metadata.file_type
                            /\ md.page = Parents[p].metadata.page

\* C15 witness: an upload of a two-chunk text and a one-chunk text has handed
\* over three chunks, the second with index 1 of 2.
C15_Witness ==
    /\ Uploaded
    /\ Len(Parents) = 2
    /\ Len(last.out.docs) = 3
    /\ last.out.docs[2].metadata.chuink_id = 1
    /\ last.out.docs[2].metadata.total_chunks = 2
    /\ last.out.docs[3].metadata.source = "b.pdf"

\* The uploaded files that are of a supported format, could be saved and load
Loadable(files) ==
    SelectSeq(files, LAMBDA f : Supported(f) /\ f.saveOk /\ f.loadOk)

\* The chunks of the files themselves, in upload order
RECURSIVE ChunksOf(_)
ChunksOf(files) ==
    IF files = <<>> THEN <<>>
    ELSE AllChunks(load_file(Head(files))) \o ChunksOf(Tail(files))

DistinctNames(files) ==
    \A i, j \in 1..Len(files) : files[i].name = files[j].name => i = j

\* C16 (as claimed): an upload in which at least one file can be saved,
\* loaded and split reaches the index build with the chunks of every such
\* file, whatever happens to the other files of the request.
C16_GoodFilesReachTheBuild ==
    (last.op = "ingest_documents" /\ ChunksOf(Loadable(last.docs)) # <<>>)
        => /\ last.out.http.code = 200
           /\ last.out.docs = ChunksOf(Loadable(last.docs))

\* C17 (as claimed): a successful upload reports files_proccessed = the number
\* of uploaded files whose content was loaded and indexed, and
\* chunks_created = the number of records handed to the index build.
C17_CountsAreFaithful ==
    (Uploaded /\ DistinctNames(last.docs))
        => /\ last.out.http.files_proccessed = Len(Loadable(last.docs))
           /\ last.out.http.chunks_created = Len(last.out.docs)

\* C18 (as claimed): split_text returns, for a non-empty text shorter than
\* chunk_size (blank text and text with blanks at its ends included), one
\* chunk equal to the text, and for the empty text no chunk.
C18_ShortTextIsOneChunk ==
    last.op = "split_text"
        => LET text == last.docs[1]
           IN  /\ (0 < Len(text) /\ Len(text) < ChunkSize)
                        => last.out.docs = <<text>>
               /\ text = <<>> => last.out.docs = <<>>

\* C19 (as claimed, its error part): once an upload has put chunks into the
\* persisted collection, no /query/ask or /query/debug request fails with
\* the not-initialized error, also when the Retriever singleton was built,
\* and its initialize() had returned, before that upload began.
C19_QueriesAfterUploadAreInitialized ==
    (step.op = "search" /\ step.indexed /\ step.early)
        => step.err # "NotInitialized"

\* C20: /query/ask invokes the language model at most once, and only after
\* retrieval has returned a non-empty context; a retrieval that raises ends
\* in a 500 and an empty context in a 404, the model not invoked.  (status,
\* err and context of the outcome are those of the retrieval.)
C20_ModelAskedOnlyWithContext ==
    last.op = "query_rag"
        => /\ last.out.llm <= 1
           /\ last.out.llm = 1
                => last.out.status = "ok" /\ last.out.context # <<>>
           /\ last.out.status = "error"
                => last.out.http.code = 500 /\ last.out.llm = 0
           /\ (last.out.status = "ok" /\ last.out.context = <<>>)
                => last.out.http.code = 404 /\ last.out.llm = 0

\* C20 witness: a question asked of an open collection without records was
\* answered 404 without the model being invoked.
C20_Witness ==
    /\ last.op = "query_rag"
    /\ last.pre.h.st = "Open"
    /\ last.pre.c.recs = <<>>
    /\ last.out.http.code = 404
    /\ last.out.llm = 0

\* The caller of the last upload sees the index as it was before the upload:
\* create_from_documents was not invoked, and the handle of get_vectorstore(),
\* the persisted collection and its directory are what they were.
IndexUntouched ==
    /\ last.out.builds = 0
    /\ vs["ingest"] = last.pre.h
    /\ coll = last.pre.c
    /\ dirExists = last.pre.d

\* C21: an upload that ends before the vectorising step -- no file sent, or
\* no file of a supported extension saved (status 400), or no document
\* loaded from the saved files (status 500) -- never invokes
\* create_from_documents and leaves the persisted collection and the
\* VectorStore handle unchanged.
C21_EarlyErrorsLeaveIndexAlone ==
    last.op = "ingest_documents"
        => LET saved_files == SavedFiles(last.docs)
           IN  /\ saved_files = <<>>
                    => last.out.http.code = 400 /\ IndexUntouched
               /\ (saved_files # <<>> /\ AllDocuments(saved_files) = <<>>)
                    => last.out.http.code = 500 /\ IndexUntouched

\* An upload of one file that was saved and could not be loaded, made when
\* the collection held records and the handle was assigned: status 500.
C21_Witness ==
    /\ last.op = "ingest_documents"
    /\ last.docs = <<FileBad>>
    /\ last.out.http.code = 500
    /\ last.pre.c.recs # <<>>
    /\ ~IsNone(last.pre.h)
    /\ IndexUntouched

====
